---- MODULE Spec2Model ----
(***************************************************************************)
(* The code-execution tool of aiportal-backend: the in-process controller  *)
(* (tools/code-execution/controller.py) and the process-isolated sandbox   *)
(* (tools/code-execution/secure_sandbox.py), one request per behaviour.    *)
(*                                                                         *)
(* A snippet is a sequence of statements drawn from Stmts.  Each statement *)
(* kind stands for a concrete piece of Python text (listed with Stmts)     *)
(* and carries both what the validator sees in that text and what the      *)
(* interpreter does when it runs it.  Time is a clock `now` in seconds;    *)
(* SIGALRM is delivered when the clock reaches the armed deadline and the  *)
(* Python-level handler runs before the next step of the interpreter.      *)
(*                                                                         *)
(* Spec is one request through either entry point.  SpecRepeat is one      *)
(* SecureSandbox object whose execute_safely is called again and again;    *)
(* SpecController is the in-process controller over snippets that also     *)
(* hold the statements only validate_code gets to see.                     *)
(***************************************************************************)
EXTENDS Integers, Sequences, FiniteSets, TLC

\* ---------------------------------------------------------------- bounds
MaxLen == 2           \* statements in a snippet
MaxTime == 20         \* the clock stops here
TickSeconds == 5      \* granularity of the clock

\* ------------------------------------------------------ program constants
ALARM_SECONDS == 10   \* signal.alarm(10)
CPU_SECONDS == 10     \* RLIMIT_CPU (10, 10)
max_cpu_time == 10    \* SecureSandbox.max_cpu_time
max_wall_time == 15   \* SecureSandbox.max_wall_time
COMM_GRACE == 5       \* communicate(timeout=self.max_wall_time + 5)

\* ------------------------------------------------------------- snippets
\* Statement kinds and the Python text each one stands for:
\*   print          print(1)                       (an expression)
\*   expr           2 + 2                          (an expression)
\*   a_plus_b       a + b                          (an expression)
\*   bad_expr       {(1, 2): 3}                    (an expression; json.dumps
\*                                                  cannot serialise it)
\*   assign_result  result = 4
\*   raise          raise ValueError
\*   alloc          x = [0]*10**9
\*   loop           while True: pass
\*   guarded_wait   try: time.sleep(60)
\*                  except Exception: pass
\*   guarded_loop   while True:
\*                      try:
\*                          while True: x = 1
\*                      except Exception: pass
\*   import_os      import os
Stmts == {"print", "expr", "a_plus_b", "bad_expr", "assign_result", "raise",
          "alloc", "loop", "guarded_wait", "guarded_loop", "import_os"}

ExprStmts == {"print", "expr", "a_plus_b", "bad_expr"}
LoopStmts == {"loop", "guarded_wait", "guarded_loop"}
BusyStmts == {"loop", "guarded_loop"}
GuardedStmts == {"guarded_wait", "guarded_loop"}

Codes == UNION {[1..n -> Stmts] : n \in 0..MaxLen}

\* context_data of the request:
\*   none     absent
\*   vars     {"variables": {"a": 3, "b": 4}}
\*   shadow   {"variables": {"math": 3}}
\*   data     {"data": "payload"}
\*   badvars  {"variables": [1]}
\* and, for the controller alone,
\*   resultvar  {"variables": {"result": 5}}
Contexts == {"none", "vars", "shadow", "data", "badvars"}

\* what sys.stdin holds
InputKinds == {"empty", "badjson", "nocode", "ok"}

None == "None"

\* Statement kinds that only the validator gets to see (it rejects each):
\*   os_open        os.open(1)
\*   concat         'a'+'b'
\*   call_import    __import__('x')
\*   dunder         (1).__abs__()
ValidatorStmts == {"os_open", "concat", "call_import", "dunder"}

ValidatorCodes == UNION {[1..n -> Stmts \cup ValidatorStmts] : n \in 0..MaxLen}

\* The denylist of validate_code, in its order (the entries the statement
\* kinds above can contain).
dangerous_patterns == <<"import os", "open(", "exec(", "eval(", "__import__", "os.">>

\* the regular expressions of the obfuscation pass, in their order
obfuscation_patterns ==
    <<"[\"\\'][^\"\\']*[\"\\']\\s*\\+\\s*[\"\\'][^\"\\']*[\"\\']",
      "\\w+\\s*=\\s*[\"\\'][^\"\\']*[\"\\'].*(?:exec|eval)",
      "(?:exec|eval)\\s*\\(\\s*\\w+\\s*\\)">>

\* the regular expressions of the last two checks
import_call == "__import__\\s*\\("
dunder_access == "\\.\\s*__\\w+__"

\* pattern occurs in the text of the statement: as a substring of the
\* lower-cased text for a denylist entry, by re.search for a regular
\* expression
Occurs(pattern, stmt) ==
    \/ pattern = "import os" /\ stmt = "import_os"
    \/ pattern = "open(" /\ stmt = "os_open"
    \/ pattern = "os." /\ stmt = "os_open"
    \/ pattern = "__import__" /\ stmt = "call_import"
    \/ pattern = obfuscation_patterns[1] /\ stmt = "concat"
    \/ pattern = import_call /\ stmt = "call_import"
    \/ pattern = dunder_access /\ stmt = "dunder"

\* pattern occurs in the text of the snippet
Search(pattern, code) == \E k \in 1..Len(code) : Occurs(pattern, code[k])

RECURSIVE FirstMatch(_, _)
FirstMatch(code, i) ==
    IF i > Len(dangerous_patterns) THEN 0
    ELSE IF Search(dangerous_patterns[i], code) THEN i
    ELSE FirstMatch(code, i + 1)

\* validate_code(code) -> (is_valid, error_msg)
validate_code(code) ==
    LET m == FirstMatch(code, 1) IN
    IF m # 0
    THEN <<FALSE, <<"Code contains potentially dangerous operation: ", dangerous_patterns[m]>> >>
    ELSE IF \E i \in 1..Len(obfuscation_patterns) : Search(obfuscation_patterns[i], code)
    THEN <<FALSE, <<"Code contains potential obfuscation pattern">> >>
    ELSE IF Search(import_call, code)
    THEN <<FALSE, <<"Direct __import__ calls are not allowed">> >>
    ELSE IF Search(dunder_access, code)
    THEN <<FALSE, <<"Direct access to dunder attributes is not allowed">> >>
    ELSE <<TRUE, None>>

\* ast.parse(code, mode='eval') succeeds
IsExpression(code) == Len(code) = 1 /\ code[1] \in ExprStmts

\* str(e) of the exceptions that occur
StrOf(e) ==
    CASE e = "TimeoutError" -> "Code execution timed out"
      [] e = "MemoryError" -> ""
      [] e = "ValueError" -> ""
      [] e = "ImportError" -> "Module 'os' is not available in this environment"
      [] e = "NameError" -> "name 'a' is not defined"
      [] e = "AttributeError" -> "'list' object has no attribute 'items'"
      [] e = "TypeError" -> "keys must be str, int, float, bool or None, not tuple"
      [] e = "TypeError_loads" ->
            \* the TypeError of json.loads(<dict>)
            "the JSON object must be str, bytes or bytearray, not dict"
      [] OTHER -> e

\* ----------------------------------------------------------------- state
VARIABLES
    strategy,        \* which entry point runs: "inproc" (controller) or "isolated"
    input,           \* the request on stdin: [kind, code, ctx]
    pc,              \* position of the controller / parent process
    now,             \* wall clock, seconds
    start_time,      \* start_time of execute_code_safely
    alarmPending,    \* a SIGALRM is scheduled in the process running the snippet
    alarmAt,         \* when it is due
    rlimits,         \* resource limits installed in that process
    cpu,             \* CPU seconds that process has consumed
    namespace,       \* exec_namespace: name -> value (empty before construction)
    redirected,      \* sys.stdout / sys.stderr are the capture buffers
    stdout_capture,  \* stdout_capture.getvalue()
    ip,              \* index of the statement the interpreter is at
    exc,             \* the exception being handled ("none" when there is none)
    result,          \* the local `result` of the executor
    ret,             \* the dict execute_code_safely / execute_safely returned
    out,             \* the lines written to the real stdout of the tool
    hist,            \* side effects of the run, in order
    temp_dir,        \* SecureSandbox.temp_dir
    dirs,            \* the temp directories that exist on disk
    calls,           \* how many times execute_safely has been entered
    threads,         \* the calls of execute_safely that threads of one host
                     \* make on one SecureSandbox (none in a run of main)
    child,           \* the spawned process: none / running / exited / killed /
                     \* reaped / abandoned (neither killed nor waited for)
    childOut,        \* what the child wrote to its real stdout (the pipe)
    returncode,      \* process.returncode
    commDeadline     \* when communicate(timeout=...) expires

vars == <<strategy, input, pc, now, start_time, alarmPending, alarmAt, rlimits,
          cpu, namespace, redirected, stdout_capture, ip, exc, result, ret,
          out, hist, temp_dir, dirs, calls, threads, child, childOut, returncode, commDeadline>>

sbVars == <<temp_dir, dirs, calls, threads, child, childOut, returncode, commDeadline>>

NoRet == [kind |-> "none"]
EmptyNamespace == [n \in {} |-> None]

code == input.code
context_data == input.ctx

\* SIGALRM has been raised and its handler has not run yet
Due == alarmPending /\ now >= alarmAt
\* the kernel is about to kill the process for RLIMIT_CPU
CpuLimit == IF strategy = "inproc" THEN CPU_SECONDS ELSE max_cpu_time
CpuDue == "CPU" \in rlimits /\ cpu >= CpuLimit
\* the parent's communicate() deadline has expired with the child running
ParentDue == child = "running" /\ now >= commDeadline
Interrupted == Due \/ CpuDue \/ ParentDue

\* ------------------------------------------------------------- emitters
emit_progress(o, step) == Append(o, [chan |-> "PROGRESS", step |-> step])
emit_status(o, status, message) ==
    Append(o, [chan |-> "STATUS", status |-> status, message |-> message])
print_response(o, body) == Append(o, [chan |-> "RESPONSE", body |-> body])

execution_time == (now - start_time) * 1000

\* ------------------------------------------------------------------ init
Inputs ==
    {[kind |-> k, code |-> <<>>, ctx |-> "none"] : k \in InputKinds \ {"ok"}}
    \cup {[kind |-> "ok", code |-> c, ctx |-> x] : c \in Codes, x \in Contexts}

\* the state a process of the tool starts in, for a request out of requests
InitFrom(requests) ==
    /\ strategy \in {"inproc", "isolated"}
    /\ input \in requests
    /\ pc = "main"
    /\ now = 0
    /\ start_time = 0
    /\ alarmPending = FALSE
    /\ alarmAt = 0
    /\ rlimits = {}
    /\ cpu = 0
    /\ namespace = EmptyNamespace
    /\ redirected = FALSE
    /\ stdout_capture = <<>>
    /\ ip = 1
    /\ exc = "none"
    /\ result = None
    /\ ret = NoRet
    /\ out = <<>>
    /\ hist = <<>>
    /\ temp_dir = None
    /\ dirs = {}
    /\ calls = 0
    /\ child = "none"
    /\ childOut = <<>>
    /\ returncode = "0"
    /\ commDeadline = 0

\* a run of main() makes one call, on its own thread
NoThreads == <<>>

Init == InitFrom(Inputs) /\ threads = NoThreads

\* ----------------------------------------------------------- the clock
\* Time passes while a deadline is armed or snippet code is running; a due
\* signal is handled before the interpreter takes its next step.
Running == pc \notin {"exited", "killed"}

Tick ==
    /\ Running
    /\ ~Interrupted
    /\ alarmPending \/ pc \in {"ecs_snippet"} \/ child = "running"
    /\ now + TickSeconds <= MaxTime
    /\ now' = now + TickSeconds
    /\ cpu' = IF pc \in {"ecs_snippet", "c_snippet"} /\ ip <= Len(code) /\ code[ip] \in BusyStmts
              THEN cpu + TickSeconds ELSE cpu
    /\ UNCHANGED <<sbVars, strategy, input, pc, start_time, alarmPending, alarmAt,
                   rlimits, namespace, redirected, stdout_capture, ip, exc,
                   result, ret, out, hist>>

\* RLIMIT_CPU reached: the kernel kills the process
cpu_limit_kill ==
    /\ Running
    /\ CpuDue
    /\ IF strategy = "inproc"
       THEN /\ pc' = "killed"
            /\ UNCHANGED <<child, returncode, alarmPending>>
       ELSE /\ child = "running"
            /\ pc' = "c_exited"
            /\ child' = "killed"
            /\ returncode' = "-9"
            /\ alarmPending' = FALSE
    /\ UNCHANGED <<strategy, input, now, start_time, alarmAt, rlimits, cpu,
                   namespace, redirected, stdout_capture, ip, exc, result,
                   ret, out, hist, temp_dir, dirs, calls, threads, childOut, commDeadline>>

\* ------------------------------------------------- controller.py: main
\* main(): read stdin, parse it, check 'code', call execute_code_safely
main ==
    /\ strategy = "inproc" /\ pc = "main"
    /\ CASE input.kind = "empty" ->
              /\ ret' = [success |-> FALSE, error |-> <<"No input data provided">>]
              /\ pc' = "main_print"
              /\ out' = out
         [] input.kind = "nocode" ->
              /\ ret' = [success |-> FALSE, error |-> <<"Missing required parameter: code">>]
              /\ pc' = "main_print"
              /\ out' = out
         [] input.kind = "badjson" ->
              /\ ret' = [success |-> FALSE, error |-> <<"Invalid JSON input">>]
              /\ out' = print_response(out, ret')
              /\ pc' = "exited"
         [] input.kind = "ok" ->
              /\ pc' = "ecs_validate"
              /\ UNCHANGED <<ret, out>>
    /\ UNCHANGED <<sbVars, strategy, input, now, start_time, alarmPending, alarmAt,
                   rlimits, cpu, namespace, redirected, stdout_capture, ip,
                   exc, result, hist>>

\* print(json.dumps(result, default=str)); a value json.dumps cannot encode
\* raises and main's `except Exception` takes over
main_print ==
    /\ strategy = "inproc" /\ pc = "main_print"
    /\ IF "result" \in DOMAIN ret /\ ret.result = "Unserializable"
       THEN /\ exc' = "TypeError"
            /\ pc' = "main_except"
            /\ out' = out
       ELSE /\ out' = print_response(out, ret)
            /\ pc' = "exited"
            /\ exc' = exc
    /\ UNCHANGED <<sbVars, strategy, input, now, start_time, alarmPending, alarmAt,
                   rlimits, cpu, namespace, redirected, stdout_capture, ip,
                   result, ret, hist>>

\* except Exception as e: in main
main_except ==
    /\ strategy = "inproc" /\ pc = "main_except"
    /\ ret' = [success |-> FALSE, error |-> <<"Unexpected error: ", StrOf(exc)>>]
    /\ out' = print_response(out, ret')
    /\ exc' = "none"
    /\ pc' = "exited"
    /\ UNCHANGED <<sbVars, strategy, input, now, start_time, alarmPending, alarmAt,
                   rlimits, cpu, namespace, redirected, stdout_capture, ip,
                   result, hist>>

\* ---------------------------------- controller.py: execute_code_safely
\* execute_code_safely_validate whose rejection branch reports the failure
\* but does not return
execute_code_safely_validate_noreturn ==
    /\ pc = "ecs_validate"
    /\ start_time' = now
    /\ LET o1 == emit_progress(emit_progress(out, "initializing"), "validating")
           v == validate_code(code)
           msg == <<"Security validation failed: ", v[2]>>
       IN /\ out' = IF ~v[1] THEN emit_status(o1, "failed", msg) ELSE o1
          /\ ret' = ret
          /\ pc' = "ecs_setup"
    /\ UNCHANGED <<sbVars, strategy, input, now, alarmPending, alarmAt, rlimits, cpu,
                   namespace, redirected, stdout_capture, ip, exc, result, hist>>

\* start_time, 'initializing', 'validating', validate_code and the rejection
execute_code_safely_validate ==
    /\ pc = "ecs_validate"
    /\ start_time' = now
    /\ LET o1 == emit_progress(emit_progress(out, "initializing"), "validating")
           v == validate_code(code)
           msg == <<"Security validation failed: ", v[2]>>
       IN IF ~v[1]
          THEN /\ out' = emit_status(o1, "failed", msg)
               /\ ret' = [success |-> FALSE, error |-> msg,
                          execution_time |-> (now - start_time') * 1000]
               /\ pc' = "ecs_finally"
          ELSE /\ out' = o1
               /\ ret' = ret
               /\ pc' = "ecs_setup"
    /\ UNCHANGED <<sbVars, strategy, input, now, alarmPending, alarmAt, rlimits, cpu,
                   namespace, redirected, stdout_capture, ip, exc, result, hist>>

\* set_memory_limit: the three setrlimit calls in order; the first one that
\* raises ends the function silently (except: pass)
set_memory_limit == {{"AS", "CPU", "NPROC"}, {"AS", "CPU"}, {"AS"}, {}}

\* 'setting_up', set_memory_limit(64), signal.signal, signal.alarm(10)
execute_code_safely_setup ==
    /\ pc = "ecs_setup"
    /\ out' = emit_progress(out, "setting_up")
    /\ \E installed \in set_memory_limit : rlimits' = installed
    /\ alarmPending' = TRUE
    /\ alarmAt' = now + ALARM_SECONDS
    /\ hist' = hist \o <<"limits", "armed">>
    /\ pc' = "ecs_prepare"
    /\ UNCHANGED <<sbVars, strategy, input, now, start_time, cpu, namespace,
                   redirected, stdout_capture, ip, exc, result, ret>>

\* create_safe_modules: the names bound at module level of the namespace
safe_module_names == {"math", "json", "time"}

\* exec_namespace after lines 222-228
create_namespace ==
    [n \in {"__builtins__", "__name__"} \cup safe_module_names |->
        IF n = "__builtins__" THEN "safe_builtins"
        ELSE IF n = "__name__" THEN "__main__"
        ELSE "module"]

\* 'preparing_environment', builtins, modules, namespace; importing the
\* modules under the address-space ceiling can raise MemoryError
execute_code_safely_prepare ==
    /\ pc = "ecs_prepare"
    /\ ~Interrupted
    /\ out' = emit_progress(out, "preparing_environment")
    /\ \/ /\ namespace' = create_namespace
          /\ hist' = Append(hist, "namespace")
          /\ pc' = "ecs_context"
          /\ exc' = exc
       \/ /\ "AS" \in rlimits
          /\ exc' = "MemoryError"
          /\ pc' = "ecs_except"
          /\ UNCHANGED <<namespace, hist>>
    /\ UNCHANGED <<sbVars, strategy, input, now, start_time, alarmPending, alarmAt,
                   rlimits, cpu, redirected, stdout_capture, ip, result, ret>>

\* binding of context_data['variables'] and context_data['data']
load_context(ns, ctx) ==
    CASE ctx = "vars" -> [n \in DOMAIN ns \cup {"a", "b"} |->
                             IF n = "a" THEN "3" ELSE IF n = "b" THEN "4" ELSE ns[n]]
      [] ctx = "shadow" -> [n \in DOMAIN ns \cup {"math"} |->
                             IF n = "math" THEN "3" ELSE ns[n]]
      [] ctx = "resultvar" -> [n \in DOMAIN ns \cup {"result"} |->
                             IF n = "result" THEN "5" ELSE ns[n]]
      [] ctx = "data" -> [n \in DOMAIN ns \cup {"data"} |->
                             IF n = "data" THEN "payload" ELSE ns[n]]
      [] OTHER -> ns

\* if context_data: 'loading_context', the variables loop, 'data'
execute_code_safely_context ==
    /\ pc = "ecs_context"
    /\ ~Interrupted
    /\ IF context_data = "none"
       THEN /\ pc' = "ecs_execute"
            /\ UNCHANGED <<out, namespace, exc, hist>>
       ELSE /\ out' = emit_progress(out, "loading_context")
            /\ IF context_data = "badvars"
               THEN /\ exc' = "AttributeError"
                    /\ pc' = "ecs_except"
                    /\ UNCHANGED <<namespace, hist>>
               ELSE /\ namespace' = load_context(namespace, context_data)
                    /\ hist' = Append(hist, "context")
                    /\ pc' = "ecs_execute"
                    /\ exc' = exc
    /\ UNCHANGED <<sbVars, strategy, input, now, start_time, alarmPending, alarmAt,
                   rlimits, cpu, redirected, stdout_capture, ip, result, ret>>

\* execute_code_safely_execute running the snippet without redirect_stdout
execute_code_safely_execute_noredirect ==
    /\ pc = "ecs_execute"
    /\ ~Interrupted
    /\ out' = emit_progress(out, "executing")
    /\ stdout_capture' = <<>>
    /\ result' = None
    /\ redirected' = FALSE
    /\ ip' = 1
    /\ hist' = Append(hist, "redirect")
    /\ pc' = "ecs_snippet"
    /\ UNCHANGED <<sbVars, strategy, input, now, start_time, alarmPending, alarmAt,
                   rlimits, cpu, namespace, exc, ret>>

\* 'executing', the capture buffers, result = None, redirect_stdout
execute_code_safely_execute ==
    /\ pc = "ecs_execute"
    /\ ~Interrupted
    /\ out' = emit_progress(out, "executing")
    /\ stdout_capture' = <<>>
    /\ result' = None
    /\ redirected' = TRUE
    /\ ip' = 1
    /\ hist' = Append(hist, "redirect")
    /\ pc' = "ecs_snippet"
    /\ UNCHANGED <<sbVars, strategy, input, now, start_time, alarmPending, alarmAt,
                   rlimits, cpu, namespace, exc, ret>>

\* --------------------------------------------------- the snippet itself
\* eval(code, ...) / exec(compiled_code, ...) inside the inner try, one
\* statement at a time.  A loop statement has no step of its own: it runs
\* until a signal or the kernel ends it.
SnippetPcs == {"ecs_snippet", "c_snippet"}
AtStatement == pc \in SnippetPcs /\ ip <= Len(code)
InnerExcept == IF strategy = "inproc" THEN "ecs_inner_except" ELSE "c_inner_except"

\* the statement raises e inside the inner try
Raise(e) ==
    /\ exc' = e
    /\ pc' = InnerExcept
    /\ hist' = Append(hist, e)
    /\ UNCHANGED <<ip, stdout_capture, result, namespace>>

\* a + b over the bindings of the namespace (3 + 4 with the variables of
\* the "vars" context)
Sum(x, y) == IF x = "3" /\ y = "4" THEN "7" ELSE "sum"

snippet_step ==
    /\ AtStatement
    /\ ~Interrupted
    /\ LET stmt == code[ip]
           \* print writes to sys.stdout: the capture buffer inside
           \* redirect_stdout, the real stdout of the process otherwise
           toReal == stmt = "print" /\ ~redirected
       IN
       /\ CASE stmt = "print" ->
                /\ stdout_capture' = IF redirected THEN Append(stdout_capture, "1\n")
                                     ELSE stdout_capture
                /\ ip' = ip + 1
                /\ UNCHANGED <<result, namespace, exc, pc, hist>>
           [] stmt \in {"expr", "bad_expr"} ->
                /\ result' = IF ~IsExpression(code) THEN result
                             ELSE IF stmt = "expr" THEN "4" ELSE "Unserializable"
                /\ ip' = ip + 1
                /\ UNCHANGED <<stdout_capture, namespace, exc, pc, hist>>
           [] stmt = "a_plus_b" ->
                IF {"a", "b"} \subseteq DOMAIN namespace
                THEN /\ result' = IF IsExpression(code)
                                  THEN Sum(namespace["a"], namespace["b"])
                                  ELSE result
                     /\ ip' = ip + 1
                     /\ UNCHANGED <<stdout_capture, namespace, exc, pc, hist>>
                ELSE Raise("NameError")
           [] stmt = "assign_result" ->
                /\ namespace' = [n \in DOMAIN namespace \cup {"result"} |->
                                    IF n = "result" THEN "4" ELSE namespace[n]]
                /\ ip' = ip + 1
                /\ UNCHANGED <<stdout_capture, result, exc, pc, hist>>
           [] stmt = "raise" -> Raise("ValueError")
           [] stmt = "import_os" -> Raise("ImportError")
           [] stmt = "alloc" ->
                \/ Raise("MemoryError")
                \/ /\ "AS" \notin rlimits
                   /\ ip' = ip + 1
                   /\ UNCHANGED <<stdout_capture, result, namespace, exc, pc, hist>>
           [] stmt = "guarded_wait" ->
                /\ ip' = ip + 1
                /\ UNCHANGED <<stdout_capture, result, namespace, exc, pc, hist>>
           [] OTHER -> FALSE
       /\ out' = IF toReal /\ strategy = "inproc"
                 THEN Append(out, [chan |-> "SNIPPET", text |-> "1\n"])
                 ELSE out
       /\ childOut' = IF toReal /\ strategy = "isolated"
                      THEN Append(childOut, "1\n")
                      ELSE childOut
    /\ UNCHANGED <<strategy, input, now, start_time, alarmPending, alarmAt,
                   rlimits, cpu, redirected, ret, temp_dir, dirs, calls, threads, child,
                   returncode, commDeadline>>

\* timeout_handler: SIGALRM is due and the handler raises TimeoutError at
\* the point the interpreter has reached
timeout_handler ==
    /\ strategy = "inproc"
    /\ Running
    /\ Due
    /\ alarmPending' = FALSE
    /\ CASE AtStatement /\ code[ip] = "guarded_wait" ->
              \* except Exception: pass
              /\ ip' = ip + 1
              /\ hist' = Append(hist, "TimeoutError")
              /\ UNCHANGED <<pc, exc, redirected>>
         [] AtStatement /\ code[ip] = "guarded_loop" ->
              /\ hist' = Append(hist, "TimeoutError")
              /\ UNCHANGED <<pc, exc, redirected, ip>>
         [] AtStatement /\ code[ip] \notin GuardedStmts ->
              \* inside the inner try
              /\ exc' = "TimeoutError"
              /\ pc' = InnerExcept
              /\ hist' = Append(hist, "TimeoutError")
              /\ UNCHANGED <<redirected, ip>>
         [] pc = "ecs_finally" ->
              \* inside `try: signal.alarm(0)` of finally: except: pass
              /\ hist' = Append(hist, "SIGALRM")
              /\ UNCHANGED <<pc, exc, redirected, ip>>
         [] pc = "ecs_except" ->
              \* inside a handler of the outer try: leaves the function
              /\ exc' = "TimeoutError"
              /\ pc' = "ecs_finally"
              /\ hist' = Append(hist, "SIGALRM")
              /\ UNCHANGED <<redirected, ip>>
         [] pc = "ecs_inner_except" ->
              \* inside the inner handler, before its signal.alarm(0)
              /\ exc' = "TimeoutError"
              /\ pc' = "ecs_except"
              /\ redirected' = FALSE
              /\ hist' = Append(hist, "SIGALRM_in_handler")
              /\ ip' = ip
         [] OTHER ->
              \* in the outer try, outside the inner one
              /\ exc' = "TimeoutError"
              /\ pc' = "ecs_except"
              /\ redirected' = FALSE
              /\ hist' = Append(hist, "SIGALRM")
              /\ ip' = ip
    /\ UNCHANGED <<sbVars, strategy, input, now, start_time, alarmAt, rlimits, cpu,
                   namespace, stdout_capture, result, ret, out>>

\* execute_code_safely_inner_except answering as the outer handlers do,
\* without the captured output
execute_code_safely_inner_except_nooutput ==
    /\ pc = "ecs_inner_except"
    /\ ~Interrupted
    /\ alarmPending' = FALSE
    /\ ret' = [success |-> FALSE,
               error |-> <<"Execution error: ", StrOf(exc)>>,
               output |-> <<>>,
               execution_time |-> execution_time]
    /\ exc' = "none"
    /\ redirected' = FALSE
    /\ hist' = Append(hist, "disarmed")
    /\ pc' = "ecs_finally"
    /\ UNCHANGED <<sbVars, strategy, input, now, start_time, alarmAt, rlimits, cpu,
                   namespace, stdout_capture, ip, result, out>>

\* except Exception as e: of the inner try (signal.alarm(0), the response
\* with the captured output)
execute_code_safely_inner_except ==
    /\ pc = "ecs_inner_except"
    /\ ~Interrupted
    /\ alarmPending' = FALSE
    /\ ret' = [success |-> FALSE,
               error |-> <<"Execution error: ", StrOf(exc)>>,
               output |-> stdout_capture,
               execution_time |-> execution_time]
    /\ exc' = "none"
    /\ redirected' = FALSE
    /\ hist' = Append(hist, "disarmed")
    /\ pc' = "ecs_finally"
    /\ UNCHANGED <<sbVars, strategy, input, now, start_time, alarmAt, rlimits, cpu,
                   namespace, stdout_capture, ip, result, out>>

\* the snippet ran to its end: result of exec mode, the with block is left,
\* signal.alarm(0)
execute_code_safely_disarm ==
    /\ pc = "ecs_snippet" /\ ip > Len(code)
    /\ ~Interrupted
    /\ result' = IF IsExpression(code) THEN result
                 ELSE IF "result" \in DOMAIN namespace THEN namespace["result"]
                 ELSE None
    /\ redirected' = FALSE
    /\ alarmPending' = FALSE
    /\ hist' = Append(hist, "disarmed")
    /\ pc' = "ecs_process"
    /\ UNCHANGED <<sbVars, strategy, input, now, start_time, alarmAt, rlimits, cpu,
                   namespace, stdout_capture, ip, exc, ret, out>>

\* execute_code_safely_process announcing 'completed' before
\* 'processing_results'
execute_code_safely_process_swapped ==
    /\ pc = "ecs_process"
    /\ ~Interrupted
    /\ out' = emit_status(
                 emit_progress(emit_progress(out, "completed"), "processing_results"),
                 "completed", <<"Execution finished successfully">>)
    /\ ret' = [success |-> TRUE,
               output |-> stdout_capture,
               result |-> result,
               execution_time |-> execution_time,
               timestamp |-> now]
    /\ hist' = Append(hist, "assembled")
    /\ pc' = "ecs_finally"
    /\ UNCHANGED <<sbVars, strategy, input, now, start_time, alarmPending, alarmAt,
                   rlimits, cpu, namespace, redirected, stdout_capture, ip,
                   exc, result>>

\* 'processing_results', output, 'completed' (progress and status), the
\* success response
execute_code_safely_process ==
    /\ pc = "ecs_process"
    /\ ~Interrupted
    /\ out' = emit_status(
                 emit_progress(emit_progress(out, "processing_results"), "completed"),
                 "completed", <<"Execution finished successfully">>)
    /\ ret' = [success |-> TRUE,
               output |-> stdout_capture,
               result |-> result,
               execution_time |-> execution_time,
               timestamp |-> now]
    /\ hist' = Append(hist, "assembled")
    /\ pc' = "ecs_finally"
    /\ UNCHANGED <<sbVars, strategy, input, now, start_time, alarmPending, alarmAt,
                   rlimits, cpu, namespace, redirected, stdout_capture, ip,
                   exc, result>>

\* the response of a handler of the outer try
FailureResponse(message) ==
    [success |-> FALSE, error |-> message, execution_time |-> execution_time]

\* except TimeoutError:
execute_code_safely_except_TimeoutError ==
    /\ pc = "ecs_except" /\ exc = "TimeoutError"
    /\ ~Interrupted
    /\ out' = emit_status(out, "failed", <<"Code execution timed out (10 seconds)">>)
    /\ ret' = FailureResponse(<<"Code execution timed out (10 seconds)">>)
    /\ exc' = "none"
    /\ pc' = "ecs_finally"
    /\ UNCHANGED <<sbVars, strategy, input, now, start_time, alarmPending, alarmAt,
                   rlimits, cpu, namespace, redirected, stdout_capture, ip,
                   result, hist>>

\* except MemoryError:
execute_code_safely_except_MemoryError ==
    /\ pc = "ecs_except" /\ exc = "MemoryError"
    /\ ~Interrupted
    /\ out' = emit_status(out, "failed", <<"Code execution exceeded memory limit (64MB)">>)
    /\ ret' = FailureResponse(<<"Code execution exceeded memory limit (64MB)">>)
    /\ exc' = "none"
    /\ pc' = "ecs_finally"
    /\ UNCHANGED <<sbVars, strategy, input, now, start_time, alarmPending, alarmAt,
                   rlimits, cpu, namespace, redirected, stdout_capture, ip,
                   result, hist>>

\* except Exception as e:
execute_code_safely_except_Exception ==
    /\ pc = "ecs_except" /\ exc \notin {"none", "TimeoutError", "MemoryError"}
    /\ ~Interrupted
    /\ out' = emit_status(out, "failed", <<"Unexpected error: ", StrOf(exc)>>)
    /\ ret' = FailureResponse(<<"Unexpected error: ", StrOf(exc)>>)
    /\ exc' = "none"
    /\ pc' = "ecs_finally"
    /\ UNCHANGED <<sbVars, strategy, input, now, start_time, alarmPending, alarmAt,
                   rlimits, cpu, namespace, redirected, stdout_capture, ip,
                   result, hist>>

\* execute_code_safely_finally without its signal.alarm(0)
execute_code_safely_finally_nocancel ==
    /\ pc = "ecs_finally"
    /\ pc' = IF exc = "none" THEN "main_print" ELSE "main_except"
    /\ UNCHANGED <<sbVars, strategy, input, now, start_time, alarmPending, alarmAt,
                   rlimits, cpu, namespace, redirected, stdout_capture, ip,
                   exc, result, ret, out, hist>>

\* finally: signal.alarm(0); then the return to main, or the exception that
\* left a handler reaches main
execute_code_safely_finally ==
    /\ pc = "ecs_finally"
    /\ alarmPending' = FALSE
    /\ pc' = IF exc = "none" THEN "main_print" ELSE "main_except"
    /\ UNCHANGED <<sbVars, strategy, input, now, start_time, alarmAt, rlimits, cpu,
                   namespace, redirected, stdout_capture, ip, exc, result,
                   ret, out, hist>>

\* ------------------------------------ secure_sandbox.py: SecureSandbox
\* JSON documents on the pipe, as the sequence of their pieces
json_dumps_success(output, res) == <<"{", "true", res>> \o output
json_dumps_failure(prefix, detail, output) == <<"{", "false", prefix, detail>> \o output
json_loads(doc) ==
    [success |-> doc[2] = "true",
     output |-> SubSeq(doc, 4, Len(doc)),
     result |-> doc[3],
     stderr |-> <<>>]

\* tempfile.mkdtemp(prefix='sandbox_'): a name no earlier call was given
mkdtemp(n) == ToString(n)

\* create_isolated_process: mkdtemp, user_code.py, execute.py
create_isolated_process ==
    /\ strategy = "isolated" /\ pc = "sb_create"
    /\ calls' = calls + 1
    /\ \/ \* tempfile.mkdtemp raises
          /\ exc' = "OSError"
          /\ pc' = "sb_except"
          /\ UNCHANGED <<temp_dir, dirs, hist>>
       \/ \* the directory exists; writing a file into it raises or not
          /\ temp_dir' = mkdtemp(calls')
          /\ dirs' = dirs \cup {temp_dir'}
          /\ hist' = Append(hist, "mkdtemp")
          /\ \/ exc' = "OSError" /\ pc' = "sb_except"
             \/ exc' = exc /\ pc' = "sb_spawn"
    /\ UNCHANGED <<strategy, input, now, start_time, alarmPending, alarmAt,
                   rlimits, cpu, namespace, redirected, stdout_capture, ip,
                   result, ret, out, threads, child, childOut, returncode,
                   commDeadline>>

\* subprocess.Popen(...) and the start of process.communicate(timeout=...)
execute_safely_spawn ==
    /\ pc = "sb_spawn"
    /\ \/ /\ exc' = "OSError"
          /\ pc' = "sb_except"
          /\ UNCHANGED <<child, commDeadline, hist>>
       \/ /\ child' = "running"
          /\ commDeadline' = now + max_wall_time + COMM_GRACE
          /\ hist' = Append(hist, "spawned")
          /\ pc' = "c_start"
          /\ exc' = exc
    /\ UNCHANGED <<strategy, input, now, start_time, alarmPending, alarmAt,
                   rlimits, cpu, namespace, redirected, stdout_capture, ip,
                   result, ret, out, temp_dir, dirs, calls, threads, childOut, returncode>>

\* the child left: its exit status and what it wrote to the pipe
ChildExit(rc, written) ==
    /\ pc' = "c_exited"
    /\ child' = "exited"
    /\ returncode' = rc
    /\ childOut' = written
    /\ alarmPending' = FALSE
    /\ redirected' = FALSE

\* execute.py: signal.signal(SIGALRM, timeout_handler); signal.alarm(max_wall_time)
child_arm ==
    /\ pc = "c_start"
    /\ ~Interrupted
    /\ alarmPending' = TRUE
    /\ alarmAt' = now + max_wall_time
    /\ hist' = Append(hist, "armed")
    /\ pc' = "c_limits"
    /\ UNCHANGED <<sbVars, strategy, input, now, start_time, rlimits, cpu,
                   namespace, redirected, stdout_capture, ip, exc, result,
                   ret, out>>

\* set_limits(): four setrlimit calls in order; one that raises leaves the
\* earlier ones installed and reaches the outer `except Exception`
set_limits == <<"AS", "CPU", "FSIZE", "NPROC">>

child_set_limits ==
    /\ pc = "c_limits"
    /\ ~Interrupted
    /\ \E n \in 0..Len(set_limits) :
          /\ rlimits' = {set_limits[k] : k \in 1..n}
          /\ IF n = Len(set_limits)
             THEN /\ pc' = "c_prepare"
                  /\ exc' = exc
                  /\ hist' = Append(hist, "limits")
             ELSE /\ pc' = "c_except"
                  /\ exc' = "ValueError"
                  /\ hist' = hist
    /\ UNCHANGED <<sbVars, strategy, input, now, start_time, alarmPending,
                   alarmAt, cpu, namespace, redirected, stdout_capture, ip,
                   result, ret, out>>

\* namespace of execute.py (lines 148-155)
create_child_namespace ==
    [n \in {"__builtins__", "__import__", "__name__"} \cup safe_module_names |->
        IF n = "__builtins__" THEN "safe_builtins"
        ELSE IF n = "__import__" THEN "safe_import"
        ELSE IF n = "__name__" THEN "__main__"
        ELSE "module"]

\* safe_builtins, safe_modules (each import guarded), safe_import, namespace
child_prepare ==
    /\ pc = "c_prepare"
    /\ ~Interrupted
    /\ namespace' = create_child_namespace
    /\ hist' = Append(hist, "namespace")
    /\ pc' = "c_context"
    /\ UNCHANGED <<sbVars, strategy, input, now, start_time, alarmPending,
                   alarmAt, rlimits, cpu, redirected, stdout_capture, ip, exc,
                   result, ret, out>>

\* context_data = <the dict literal json.dumps rendered into the script>;
\* a truthy one goes to json.loads(context_data), which raises TypeError for
\* a dict
child_context ==
    /\ pc = "c_context"
    /\ ~Interrupted
    /\ IF context_data = "none"
       THEN pc' = "c_execute" /\ exc' = exc
       ELSE pc' = "c_except" /\ exc' = "TypeError_loads"
    /\ UNCHANGED <<sbVars, strategy, input, now, start_time, alarmPending,
                   alarmAt, rlimits, cpu, namespace, redirected,
                   stdout_capture, ip, result, ret, out, hist>>

\* reading user_code.py, the capture buffers, redirect_stdout; allocating
\* under the address-space ceiling can raise MemoryError
child_execute ==
    /\ pc = "c_execute"
    /\ ~Interrupted
    /\ \/ /\ stdout_capture' = <<>>
          /\ result' = None
          /\ redirected' = TRUE
          /\ ip' = 1
          /\ hist' = Append(hist, "redirect")
          /\ pc' = "c_snippet"
          /\ exc' = exc
       \/ /\ exc' = "MemoryError"
          /\ pc' = "c_except"
          /\ UNCHANGED <<stdout_capture, result, redirected, ip, hist>>
    /\ UNCHANGED <<sbVars, strategy, input, now, start_time, alarmPending,
                   alarmAt, rlimits, cpu, namespace, ret, out>>

\* except Exception as e: of the inner try in execute.py: print(json.dumps(...))
\* while stdout is still redirected, then sys.exit(1)
child_inner_except ==
    /\ pc = "c_inner_except"
    /\ ~Interrupted
    /\ stdout_capture' = stdout_capture \o json_dumps_failure(StrOf(exc), "", stdout_capture)
    /\ ChildExit("1", childOut)
    /\ exc' = "none"
    /\ UNCHANGED <<strategy, input, now, start_time, alarmAt, rlimits, cpu,
                   namespace, ip, result, ret, out, hist, temp_dir, dirs, calls, threads,
                   commDeadline>>

\* the snippet ran to its end: signal.alarm(0), print(json.dumps({success:
\* True ...}, default=str)) on the real stdout
child_finish ==
    /\ pc = "c_snippet" /\ ip > Len(code)
    /\ ~Interrupted
    /\ LET res == IF IsExpression(code) THEN result
                  ELSE IF "result" \in DOMAIN namespace THEN namespace["result"]
                  ELSE None
       IN /\ result' = res
          /\ hist' = Append(hist, "disarmed")
          /\ IF res = "Unserializable"
             THEN /\ exc' = "TypeError"
                  /\ pc' = "c_except"
                  /\ alarmPending' = FALSE
                  /\ redirected' = FALSE
                  /\ UNCHANGED <<child, returncode, childOut>>
             ELSE /\ ChildExit("0", json_dumps_success(stdout_capture, res))
                  /\ exc' = exc
    /\ UNCHANGED <<strategy, input, now, start_time, alarmAt, rlimits, cpu,
                   namespace, stdout_capture, ip, ret, out, temp_dir, dirs, calls, threads,
                   commDeadline>>

\* except TimeoutError / except MemoryError / except Exception of execute.py:
\* the error document on the real stdout, sys.exit(1)
child_except ==
    /\ pc = "c_except"
    /\ ~Interrupted
    /\ ChildExit("1",
          CASE exc = "TimeoutError" -> json_dumps_failure("Execution timed out", "", <<>>)
            [] exc = "MemoryError" -> json_dumps_failure("Memory limit exceeded", "", <<>>)
            [] OTHER -> json_dumps_failure("Security error: ", StrOf(exc), <<>>))
    /\ exc' = "none"
    /\ UNCHANGED <<strategy, input, now, start_time, alarmAt, rlimits, cpu,
                   namespace, stdout_capture, ip, result, ret, out, hist,
                   temp_dir, dirs, calls, threads, commDeadline>>

\* timeout_handler of execute.py
child_timeout_handler ==
    /\ strategy = "isolated"
    /\ child = "running"
    /\ Due
    /\ CASE AtStatement /\ code[ip] = "guarded_wait" ->
              /\ ip' = ip + 1
              /\ alarmPending' = FALSE
              /\ hist' = Append(hist, "TimeoutError")
              /\ UNCHANGED <<pc, exc, redirected, child, returncode, childOut>>
         [] AtStatement /\ code[ip] = "guarded_loop" ->
              /\ alarmPending' = FALSE
              /\ hist' = Append(hist, "TimeoutError")
              /\ UNCHANGED <<pc, exc, redirected, ip, child, returncode, childOut>>
         [] AtStatement /\ code[ip] \notin GuardedStmts ->
              /\ exc' = "TimeoutError"
              /\ pc' = InnerExcept
              /\ alarmPending' = FALSE
              /\ hist' = Append(hist, "TimeoutError")
              /\ UNCHANGED <<redirected, ip, child, returncode, childOut>>
         [] pc = "c_except" ->
              \* raised inside an outer handler: uncaught, exit status 1
              /\ ChildExit("1", childOut)
              /\ exc' = "none"
              /\ hist' = Append(hist, "SIGALRM")
              /\ ip' = ip
         [] pc = "c_inner_except" ->
              \* inside the inner handler, before its sys.exit(1)
              /\ exc' = "TimeoutError"
              /\ pc' = "c_except"
              /\ alarmPending' = FALSE
              /\ redirected' = FALSE
              /\ hist' = Append(hist, "SIGALRM_in_handler")
              /\ UNCHANGED <<ip, child, returncode, childOut>>
         [] OTHER ->
              /\ exc' = "TimeoutError"
              /\ pc' = "c_except"
              /\ alarmPending' = FALSE
              /\ redirected' = FALSE
              /\ hist' = Append(hist, "SIGALRM")
              /\ UNCHANGED <<ip, child, returncode, childOut>>
    /\ UNCHANGED <<strategy, input, now, start_time, alarmAt, rlimits, cpu,
                   namespace, stdout_capture, result, ret, out,
                   temp_dir, dirs, calls, threads, commDeadline>>

\* communicate() returned: returncode 0 -> json.loads(stdout), otherwise the
\* 'Process failed' response carrying the child's stdout
execute_safely_communicate ==
    /\ pc = "c_exited"
    /\ child' = "reaped"
    /\ ret' = IF returncode = "0"
              THEN json_loads(childOut)
              ELSE [success |-> FALSE,
                    error |-> <<"Process failed with code ", returncode>>,
                    output |-> childOut,
                    stderr |-> <<>>]
    /\ pc' = "sb_finally"
    /\ UNCHANGED <<strategy, input, now, start_time, alarmPending, alarmAt,
                   rlimits, cpu, namespace, redirected, stdout_capture, ip,
                   exc, result, out, hist, temp_dir, dirs, calls, threads, childOut,
                   returncode, commDeadline>>

\* except subprocess.TimeoutExpired: os.killpg(os.getpgid(pid), SIGKILL),
\* process.wait(), the timeout response.  When getpgid / killpg raises, the
\* exception leaves this handler before process.wait() and the outer
\* `except Exception` answers; the child is left as it was.
execute_safely_TimeoutExpired ==
    /\ ParentDue
    /\ alarmPending' = FALSE
    /\ \/ /\ child' = "reaped"
          /\ returncode' = "-9"
          /\ ret' = [success |-> FALSE,
                     error |-> <<"Execution timeout - process terminated">>,
                     output |-> <<>>,
                     stderr |-> <<>>]
          /\ pc' = "sb_finally"
          /\ exc' = exc
       \/ /\ child' = "abandoned"
          /\ exc' = "OSError"
          /\ pc' = "sb_except"
          /\ UNCHANGED <<returncode, ret>>
    /\ UNCHANGED <<strategy, input, now, start_time, alarmAt, rlimits, cpu,
                   namespace, redirected, stdout_capture, ip, result,
                   out, hist, temp_dir, dirs, calls, threads, childOut, commDeadline>>

\* except Exception as e: of execute_safely
execute_safely_except ==
    /\ pc = "sb_except"
    /\ ret' = [success |-> FALSE,
               error |-> <<"Sandbox error: ", StrOf(exc)>>,
               output |-> <<>>,
               stderr |-> <<>>]
    /\ exc' = "none"
    /\ pc' = "sb_finally"
    /\ UNCHANGED <<sbVars, strategy, input, now, start_time, alarmPending,
                   alarmAt, rlimits, cpu, namespace, redirected,
                   stdout_capture, ip, result, out, hist>>

\* execute_safely_finally removing the directory only after a run that
\* succeeded
execute_safely_finally_onsuccess ==
    /\ pc = "sb_finally"
    /\ dirs' = IF temp_dir # None /\ ret.success THEN dirs \ {temp_dir} ELSE dirs
    /\ pc' = "sb_main_finish"
    /\ UNCHANGED <<strategy, input, now, start_time, alarmPending, alarmAt,
                   rlimits, cpu, namespace, redirected, stdout_capture, ip,
                   exc, result, ret, out, hist, temp_dir, calls, threads, child,
                   childOut, returncode, commDeadline>>

\* finally: shutil.rmtree(self.temp_dir) when self.temp_dir is set
execute_safely_finally ==
    /\ pc = "sb_finally"
    /\ dirs' = IF temp_dir # None THEN dirs \ {temp_dir} ELSE dirs
    /\ pc' = "sb_main_finish"
    /\ UNCHANGED <<strategy, input, now, start_time, alarmPending, alarmAt,
                   rlimits, cpu, namespace, redirected, stdout_capture, ip,
                   exc, result, ret, out, hist, temp_dir, calls, threads, child,
                   childOut, returncode, commDeadline>>

\* ------------------------------------------- secure_sandbox.py: main
\* result['timestamp'] = ...; result['execution_time'] = 0
WithStamp(r) ==
    [f \in DOMAIN r \cup {"timestamp", "execution_time"} |->
        IF f = "timestamp" THEN now
        ELSE IF f = "execution_time" THEN 0
        ELSE r[f]]

\* main() up to the call of sandbox.execute_safely; without a snippet to
\* run, straight to the response
sandbox_main ==
    /\ strategy = "isolated" /\ pc = "main"
    /\ CASE input.kind = "empty" ->
              /\ ret' = WithStamp([success |-> FALSE, error |-> <<"No input data provided">>])
              /\ out' = print_response(out, ret')
              /\ pc' = "exited"
         [] input.kind = "nocode" ->
              /\ ret' = WithStamp([success |-> FALSE, error |-> <<"Missing required parameter: code">>])
              /\ out' = print_response(out, ret')
              /\ pc' = "exited"
         [] input.kind = "badjson" ->
              /\ ret' = [success |-> FALSE, error |-> <<"Invalid JSON input">>]
              /\ out' = print_response(out, ret')
              /\ pc' = "exited"
         [] input.kind = "ok" ->
              /\ out' = emit_progress(emit_progress(out, "initializing"), "executing")
              /\ pc' = "sb_create"
              /\ ret' = ret
    /\ UNCHANGED <<sbVars, strategy, input, now, start_time, alarmPending,
                   alarmAt, rlimits, cpu, namespace, redirected,
                   stdout_capture, ip, exc, result, hist>>

\* main() after execute_safely returned: the completed / failed events, the
\* two added fields, the response
sandbox_main_finish ==
    /\ pc = "sb_main_finish"
    /\ ret' = WithStamp(ret)
    /\ out' = print_response(
                 IF ret.success
                 THEN emit_status(emit_progress(out, "completed"), "completed",
                                  <<"Execution finished successfully">>)
                 ELSE emit_status(out, "failed", ret.error),
                 ret')
    /\ pc' = "exited"
    /\ UNCHANGED <<sbVars, strategy, input, now, start_time, alarmPending,
                   alarmAt, rlimits, cpu, namespace, redirected,
                   stdout_capture, ip, exc, result, hist>>

Next ==
    \/ Tick
    \/ cpu_limit_kill
    \/ main
    \/ main_print
    \/ main_except
    \/ execute_code_safely_validate
    \/ execute_code_safely_setup
    \/ execute_code_safely_prepare
    \/ execute_code_safely_context
    \/ execute_code_safely_execute
    \/ snippet_step
    \/ timeout_handler
    \/ execute_code_safely_inner_except
    \/ execute_code_safely_disarm
    \/ execute_code_safely_process
    \/ execute_code_safely_except_TimeoutError
    \/ execute_code_safely_except_MemoryError
    \/ execute_code_safely_except_Exception
    \/ execute_code_safely_finally
    \/ sandbox_main
    \/ create_isolated_process
    \/ execute_safely_spawn
    \/ child_arm
    \/ child_set_limits
    \/ child_prepare
    \/ child_context
    \/ child_execute
    \/ child_inner_except
    \/ child_finish
    \/ child_except
    \/ child_timeout_handler
    \/ execute_safely_communicate
    \/ execute_safely_TimeoutExpired
    \/ execute_safely_except
    \/ execute_safely_finally
    \/ sandbox_main_finish

Spec == Init /\ [][Next]_vars

\* ------------------------------------------ one SecureSandbox, many calls
MaxCalls == 2         \* calls of execute_safely on one object

\* The caller invokes execute_safely again on the same SecureSandbox with
\* the same arguments: the object keeps self.temp_dir, the disk keeps what
\* is on it and the clock goes on; everything that belonged to the call
\* before and to its child starts afresh.
execute_safely_again ==
    /\ pc = "sb_main_finish"
    /\ calls < MaxCalls
    /\ pc' = "sb_create"
    /\ alarmPending' = FALSE
    /\ rlimits' = {}
    /\ cpu' = 0
    /\ namespace' = EmptyNamespace
    /\ redirected' = FALSE
    /\ stdout_capture' = <<>>
    /\ ip' = 1
    /\ exc' = "none"
    /\ result' = None
    /\ ret' = NoRet
    /\ hist' = <<>>
    /\ child' = "none"
    /\ childOut' = <<>>
    /\ returncode' = "0"
    /\ alarmAt' = 0
    /\ commDeadline' = 0
    /\ UNCHANGED <<strategy, input, now, start_time, out, temp_dir, dirs, calls, threads>>

IsolatedInit == Init /\ strategy = "isolated"

IsolatedNext ==
    \/ Tick
    \/ cpu_limit_kill
    \/ sandbox_main
    \/ create_isolated_process
    \/ execute_safely_spawn
    \/ child_arm
    \/ child_set_limits
    \/ child_prepare
    \/ child_context
    \/ child_execute
    \/ snippet_step
    \/ child_inner_except
    \/ child_finish
    \/ child_except
    \/ child_timeout_handler
    \/ execute_safely_communicate
    \/ execute_safely_TimeoutExpired
    \/ execute_safely_except
    \/ execute_safely_finally
    \/ execute_safely_again
    \/ sandbox_main_finish

SpecRepeat == IsolatedInit /\ [][IsolatedNext]_vars

\* ---------------------------------------- one SecureSandbox, two threads
\* Threads of one host call execute_safely on the same SecureSandbox at the
\* same time.  The calls share the object (self.temp_dir) and the disk;
\* what each child does inside is as in Spec and is left out here: a child
\* runs until communicate() has it back, by its exit or by the kill.
MaxThreads == 2       \* threads calling at the same time

Threads == 1..MaxThreads

\* the state of the one-request run, which these calls leave alone
callVars == <<strategy, input, pc, now, start_time, alarmPending, alarmAt,
              rlimits, cpu, namespace, redirected, stdout_capture, ip, exc,
              result, ret, out, hist, child, childOut, returncode,
              commDeadline>>

\* a thread about to call execute_safely: where it is, the directory its
\* call created, the directory its child runs in
Idle == [pc |-> "call", dir |-> None, cwd |-> None]

ConcurrentInit ==
    /\ InitFrom({[kind |-> "ok", code |-> <<"expr">>, ctx |-> "none"]})
    /\ strategy = "isolated"
    /\ threads = [t \in Threads |-> Idle]

\* thread t moves to position p
Goto(t, p) == threads' = [threads EXCEPT ![t].pc = p]

\* create_isolated_process, line 31: self.temp_dir = tempfile.mkdtemp(...)
t_mkdtemp(t) ==
    /\ threads[t].pc = "call"
    /\ \/ \* mkdtemp raises: the outer except, then finally
          /\ Goto(t, "finally")
          /\ UNCHANGED <<temp_dir, dirs, calls>>
       \/ /\ calls' = calls + 1
          /\ temp_dir' = mkdtemp(calls')
          /\ dirs' = dirs \cup {temp_dir'}
          /\ threads' = [threads EXCEPT ![t].pc = "write", ![t].dir = temp_dir']
    /\ UNCHANGED callVars

\* create_isolated_process, lines 34-42: user_code.py and execute.py are
\* written under self.temp_dir as it is now; open() raises when that
\* directory is gone
t_create_isolated_process(t) ==
    /\ threads[t].pc = "write"
    /\ IF temp_dir \in dirs
       THEN Goto(t, "spawn") \/ Goto(t, "finally")
       ELSE Goto(t, "finally")
    /\ UNCHANGED <<callVars, temp_dir, dirs, calls>>

\* subprocess.Popen(..., cwd=self.temp_dir, ...) with self.temp_dir as it
\* is now; it raises when that directory is gone
t_execute_safely_spawn(t) ==
    /\ threads[t].pc = "spawn"
    /\ IF temp_dir \in dirs
       THEN \/ threads' = [threads EXCEPT ![t].pc = "wait", ![t].cwd = temp_dir]
            \/ Goto(t, "finally")
       ELSE Goto(t, "finally")
    /\ UNCHANGED <<callVars, temp_dir, dirs, calls>>

\* communicate() has the child back (its exit, or the kill and wait of the
\* deadline handler); the response is made
t_execute_safely_communicate(t) ==
    /\ threads[t].pc = "wait"
    /\ Goto(t, "finally")
    /\ UNCHANGED <<callVars, temp_dir, dirs, calls>>

\* finally: shutil.rmtree(self.temp_dir) with self.temp_dir as it is now
t_execute_safely_finally(t) ==
    /\ threads[t].pc = "finally"
    /\ dirs' = IF temp_dir # None THEN dirs \ {temp_dir} ELSE dirs
    /\ Goto(t, "returned")
    /\ UNCHANGED <<callVars, temp_dir, calls>>

ConcurrentNext ==
    \E t \in Threads :
        \/ t_mkdtemp(t)
        \/ t_create_isolated_process(t)
        \/ t_execute_safely_spawn(t)
        \/ t_execute_safely_communicate(t)
        \/ t_execute_safely_finally(t)

SpecConcurrent == ConcurrentInit /\ [][ConcurrentNext]_vars

\* ------------------------------------- the controller and its validator
\* The in-process controller alone, over the requests of Init and those
\* whose snippets hold the statements only the validator sees.
ValidatorInputs ==
    Inputs \cup {[kind |-> "ok", code |-> c, ctx |-> "none"] : c \in ValidatorCodes}

\* requests whose context binds the name 'result'
ResultInputs == {[kind |-> "ok", code |-> c, ctx |-> "resultvar"] : c \in Codes}

ControllerInit ==
    /\ InitFrom(ValidatorInputs \cup ResultInputs)
    /\ strategy = "inproc"
    /\ threads = NoThreads

ControllerNext ==
    \/ Tick
    \/ cpu_limit_kill
    \/ main
    \/ main_print
    \/ main_except
    \/ execute_code_safely_validate
    \/ execute_code_safely_setup
    \/ execute_code_safely_prepare
    \/ execute_code_safely_context
    \/ execute_code_safely_execute
    \/ snippet_step
    \/ timeout_handler
    \/ execute_code_safely_inner_except
    \/ execute_code_safely_disarm
    \/ execute_code_safely_process
    \/ execute_code_safely_except_TimeoutError
    \/ execute_code_safely_except_MemoryError
    \/ execute_code_safely_except_Exception
    \/ execute_code_safely_finally

SpecController == ControllerInit /\ [][ControllerNext]_vars

\* ------------------------------------------------------------ properties
Range(f) == {f[i] : i \in DOMAIN f}

\* the terminal response, once the tool has exited
Response == out[Len(out)].body

\* execute_code_safely has returned (or an exception has left it)
Returned == strategy = "inproc" /\ input.kind = "ok"
            /\ pc \in {"main_print", "main_except", "exited"}

Accepted == input.kind = "ok" /\ validate_code(code)[1]
Rejected == input.kind = "ok" /\ ~validate_code(code)[1]

\* SIGALRM raised TimeoutError while a statement of the snippet was running
TimeoutInSnippet == "TimeoutError" \in Range(hist)
\* a statement of the snippet raised MemoryError
MemoryInSnippet == "MemoryError" \in Range(hist)
\* a statement of the snippet raised by itself
SnippetRaised ==
    Range(hist) \cap {"ValueError", "ImportError", "MemoryError", "NameError"} # {}

IsTimeoutOutcome(r) ==
    /\ ~r.success
    /\ r.error[1] \in {"Code execution timed out (10 seconds)",
                       "Execution timed out",
                       "Execution timeout - process terminated"}

IsMemoryOutcome(r) ==
    /\ ~r.success
    /\ r.error[1] \in {"Code execution exceeded memory limit (64MB)",
                       "Memory limit exceeded"}

\* what the statements before statement k have written to stdout
ExpectedOutput(c, k) ==
    LET prints == SelectSeq(SubSeq(c, 1, k - 1), LAMBDA st : st = "print")
    IN [i \in 1..Len(prints) |-> "1\n"]

\* C1: in both strategies, when the deadline expires while snippet code is
\* executing, the terminal response is the timeout outcome, never the
\* outcome of a snippet exception.
C1_TimeoutIsTimedOut ==
    (pc = "exited" /\ TimeoutInSnippet) => IsTimeoutOutcome(Response)

\* C2: in both strategies, when a MemoryError is raised during snippet
\* execution, the terminal response is the memory-limit outcome, never
\* success and never the generic run-time error.
C2_MemoryIsResourceExceeded ==
    (pc = "exited" /\ MemoryInSnippet) => IsMemoryOutcome(Response)

\* C3: in execute_code_safely a snippet that validate_code rejects gets a
\* success=false response and, at every moment of the run, no limit is
\* installed, the alarm has not been armed, no namespace exists, no context
\* is loaded, stdout is not redirected and no statement has been evaluated.
C3_RejectedBeforeSideEffects ==
    (strategy = "inproc" /\ Rejected) =>
        /\ rlimits = {}
        /\ ~alarmPending
        /\ namespace = EmptyNamespace
        /\ ~redirected
        /\ stdout_capture = <<>>
        /\ ip = 1
        /\ hist = <<>>
        /\ pc \in {"main", "ecs_validate", "ecs_finally", "main_print", "exited"}
        /\ pc \in {"ecs_finally", "main_print", "exited"} =>
              /\ ~ret.success
              /\ ret.error[1] = "Security validation failed: "

C3_Witness ==
    /\ strategy = "inproc" /\ Rejected
    /\ pc = "main_print"
    /\ ~ret.success

\* C4: in the process-isolated entry point a snippet containing a denylisted
\* pattern is rejected before anything else: no temp directory, no child
\* process, and a success=false response naming the dangerous operation.
C4_IsolatedValidatesFirst ==
    (strategy = "isolated" /\ Rejected) =>
        /\ temp_dir = None
        /\ dirs = {}
        /\ child = "none"
        /\ pc = "exited" =>
              /\ ~Response.success
              /\ Response.error = <<"Security validation failed: ", validate_code(code)[2]>>

DeadlineInHandler == "SIGALRM_in_handler" \in Range(hist)

C6_IsolatedOutputOnException ==
    (strategy = "isolated" /\ pc = "exited" /\ SnippetRaised) =>
        /\ ~Response.success
        /\ Response.output = ExpectedOutput(code, ip)

\* C7: whatever happens during a run of the in-process controller, the
\* process ends having written exactly one terminal response line.
C7_ExactlyOneResponse ==
    (strategy = "inproc" /\ pc \in {"exited", "killed"}) =>
        Len(SelectSeq(out, LAMBDA l : l.chan = "RESPONSE")) = 1

\* the wall-time ceiling and the grace margin of the strategy, seconds
Ceiling == IF strategy = "inproc" THEN ALARM_SECONDS ELSE max_wall_time

\* C8: an accepted snippet that runs into the wall-time ceiling neither
\* succeeds nor keeps running: it is stopped at the deadline, and the
\* response is the timeout response with ceiling <= elapsed < ceiling + grace.
C8_TimeoutStopsSnippet ==
    (Accepted /\ TimeoutInSnippet) =>
        /\ ~AtStatement
        /\ pc = "exited" =>
              /\ IsTimeoutOutcome(Response)
              /\ "execution_time" \in DOMAIN Response
              /\ Response.execution_time >= Ceiling * 1000
              /\ Response.execution_time < (Ceiling + COMM_GRACE) * 1000

\* C9: no alarm is pending once execute_code_safely has returned, on every
\* exit path, and a rejected snippet never arms it.
C9_NoAlarmAfterReturn ==
    /\ Returned => ~alarmPending
    /\ (strategy = "inproc" /\ Rejected) => ("armed" \notin Range(hist) /\ ~alarmPending)

\* an engine fault left the alarm to the finally clause
C9_Witness ==
    /\ Returned
    /\ "armed" \in Range(hist)
    /\ "disarmed" \notin Range(hist)
    /\ "SIGALRM" \notin Range(hist)
    /\ ~ret.success

\* C10: for every request that enters execute_code_safely, the last event
\* before the terminal response is 'completed' when the response has
\* success=true and a 'failed' status when it has success=false.
C10_TerminalEvent ==
    (strategy = "inproc" /\ input.kind = "ok" /\ pc = "exited") =>
        /\ Len(out) >= 2
        /\ LET e == out[Len(out) - 1] IN
              /\ e.chan = "STATUS"
              /\ e.status = (IF Response.success THEN "completed" ELSE "failed")

\* ------------------------------------------------------ progress events
\* the phases of the PROGRESS: lines written so far, in order
ProgressSteps ==
    LET p == SelectSeq(out, LAMBDA l : l.chan = "PROGRESS")
    IN [i \in 1..Len(p) |-> p[i].step]

\* the emit_progress calls of execute_code_safely, top to bottom
progress_steps ==
    <<"initializing", "validating", "setting_up", "preparing_environment",
      "loading_context", "executing", "processing_results", "completed">>

\* position of x in seq, 0 when it is not there
IndexIn(seq, x) ==
    IF \E i \in 1..Len(seq) : seq[i] = x
    THEN CHOOSE i \in 1..Len(seq) : seq[i] = x
    ELSE 0

\* every element of steps is in order, and steps follows order strictly
InOrder(steps, order) ==
    /\ \A i \in 1..Len(steps) : IndexIn(order, steps[i]) # 0
    /\ \A i, j \in 1..Len(steps) :
          i < j => IndexIn(order, steps[i]) < IndexIn(order, steps[j])

\* C11 as stated: in every run of execute_code_safely the PROGRESS phases
\* are emitted in the order validating, setting_up, preparing_environment,
\* loading_context, executing, processing_results, completed: none twice,
\* none after a later one, and every phase emitted is one of these.
C11_PhaseOrder ==
    strategy = "inproc" => InOrder(ProgressSteps, Tail(progress_steps))

\* C11 amended: the same with 'initializing' at the head of the sequence.
C11_PhaseOrderFromInitializing ==
    strategy = "inproc" => InOrder(ProgressSteps, progress_steps)

\* a successful run with a context: every phase has been emitted
C11_Witness ==
    /\ strategy = "inproc" /\ pc = "exited"
    /\ ProgressSteps = progress_steps

\* C12: in both entry points every line on the real output stream is a
\* PROGRESS:, a STATUS: or the terminal response line, nothing is written
\* after the terminal response, and what the snippet prints never appears
\* there as a line of its own.
C12_EventsBeforeResponse ==
    \A i \in 1..Len(out) :
        /\ out[i].chan \in {"PROGRESS", "STATUS", "RESPONSE"}
        /\ out[i].chan = "RESPONSE" => i = Len(out)

\* a snippet that printed, after events and before the response
C12_Witness ==
    /\ strategy = "inproc" /\ pc = "exited"
    /\ stdout_capture # <<>>
    /\ Len(out) > 2
    /\ out[1].chan = "PROGRESS"
    /\ out[Len(out) - 1].chan = "STATUS"
    /\ out[Len(out)].chan = "RESPONSE"

\* C13: every terminal response of the code-execution tool, whatever the
\* outcome (success, rejection, snippet exception, timeout, memory limit,
\* unexpected error, missing 'code', empty or invalid JSON input), has the
\* fields 'success', 'execution_time' and 'timestamp'.
C13_ResponseFields ==
    pc = "exited" =>
        {"success", "execution_time", "timestamp"} \subseteq DOMAIN Response

\* how the process of the entry point has ended
exit_status ==
    CASE pc = "exited" -> "0"
      [] pc = "killed" -> "SIGKILL"
      [] OTHER -> "running"

\* C14: for every request whose snippet is rejected or fails while it runs
\* (snippet exception, memory ceiling, CPU ceiling), the process of the entry
\* point ends with exit code 0 after a response with success=false; it is
\* never ended by a signal.
C14_FailureExitsZero ==
    (input.kind = "ok" /\ ~Running /\ (Rejected \/ SnippetRaised \/ CpuDue)) =>
        /\ exit_status = "0"
        /\ out # <<>>
        /\ out[Len(out)].chan = "RESPONSE"
        /\ ~Response.success

\* C15: in both strategies the entries of context_data.variables are bound
\* under their names, so that with variables {a: 3, b: 4} the expression
\* snippet 'a + b', run without a deadline or an engine fault interfering,
\* gets success=true and result 7.
C15_ContextVariablesBound ==
    ( /\ pc = "exited"
      /\ input.kind = "ok" /\ context_data = "vars" /\ code = <<"a_plus_b">>
      /\ "namespace" \in Range(hist)
      /\ Range(hist) \cap {"TimeoutError", "SIGALRM"} = {} ) =>
        /\ Response.success
        /\ Response.result = "7"

\* execute_safely has returned to its caller
ExecuteSafelyReturned ==
    strategy = "isolated" /\ calls > 0 /\ pc \in {"sb_main_finish", "exited"}

C17_ChildReaped ==
    (ExecuteSafelyReturned /\ "spawned" \in Range(hist)) => child = "reaped"

\* the allowed names of the sandbox: the table of primitives and the modules
AllowedNames == {"__builtins__"} \cup safe_module_names

\* C18: in execute_code_safely, once the namespace is built, every allowed
\* primitive name and module name keeps mapping to the handle it was built
\* with for the rest of the call: neither context loading nor the snippet
\* rebinds or removes one.
C18_AllowedNamesStable ==
    (strategy = "inproc" /\ "namespace" \in Range(hist)) =>
        \A n \in AllowedNames :
            /\ n \in DOMAIN namespace
            /\ namespace[n] = create_namespace[n]

\* C19: in the in-process strategy no statement of the snippet is evaluated
\* unless the address-space, CPU-time and process-count ceilings have all
\* been installed before.
C19_LimitsBeforeSnippet ==
    (strategy = "inproc" /\ (AtStatement \/ ip > 1)) =>
        {"AS", "CPU", "NPROC"} \subseteq rlimits

\* ------------------------------------------------------- the validator
\* the checks of validate_code in the order the code makes them
all_checks == dangerous_patterns \o obfuscation_patterns \o <<import_call, dunder_access>>

\* the first check that matches the snippet, 0 when none does
FirstCheck(c) ==
    IF \E k \in 1..Len(all_checks) : Search(all_checks[k], c)
    THEN CHOOSE k \in 1..Len(all_checks) :
            /\ Search(all_checks[k], c)
            /\ \A j \in 1..(k - 1) : ~Search(all_checks[j], c)
    ELSE 0

\* the reason validate_code gives when check k is the one that matches
RejectionReason(k) ==
    IF k <= Len(dangerous_patterns)
    THEN <<"Code contains potentially dangerous operation: ", all_checks[k]>>
    ELSE IF k <= Len(dangerous_patterns) + Len(obfuscation_patterns)
    THEN <<"Code contains potential obfuscation pattern">>
    ELSE IF all_checks[k] = import_call
    THEN <<"Direct __import__ calls are not allowed">>
    ELSE <<"Direct access to dunder attributes is not allowed">>

\* the reason the controller reported for the snippet (the 'failed' status
\* that follows 'initializing' and 'validating'), None without a rejection
ReportedReason ==
    IF Len(out) >= 3 /\ out[3].chan = "STATUS" /\ out[3].status = "failed"
    THEN out[3].message[2]
    ELSE None

\* C20: validate_code stops at the first check that matches, and the reason
\* of the rejection identifies the pattern that triggered it (no other
\* pattern has the same reason), for denylist entries, obfuscation regexes,
\* the __import__ call check and the dunder check alike; a snippet that
\* matches no check is accepted.
C20_ReasonIdentifiesPattern ==
    (strategy = "inproc" /\ input.kind = "ok" /\ pc \notin {"main", "ecs_validate"}) =>
        LET k == FirstCheck(code) IN
        IF k = 0
        THEN validate_code(code) = <<TRUE, None>> /\ ReportedReason = None
        ELSE /\ ReportedReason = RejectionReason(k)
             /\ \A j \in 1..Len(all_checks) :
                   RejectionReason(j) = RejectionReason(k) => j = k

\* ------------------------------------------------------ order of steps
\* a comes before b among the side effects of the run so far
Before(a, b) ==
    /\ IndexIn(hist, a) # 0
    /\ IndexIn(hist, b) # 0
    /\ IndexIn(hist, a) < IndexIn(hist, b)

\* C21: in every run of execute_code_safely that reaches snippet execution
\* the steps come in the order: limits installed, namespace built and
\* context loaded, deadline armed, snippet executed, deadline disarmed,
\* result assembled; in particular the deadline is armed only after the
\* namespace has been built and the context loaded.
C21_StepOrder ==
    (strategy = "inproc" /\ "redirect" \in Range(hist)) =>
        /\ Before("limits", "namespace")
        /\ "context" \in Range(hist) => Before("namespace", "context")
        /\ Before("namespace", "armed")
        /\ "context" \in Range(hist) => Before("context", "armed")
        /\ Before("armed", "redirect")
        /\ "disarmed" \in Range(hist) => Before("redirect", "disarmed")
        /\ "assembled" \in Range(hist) => Before("disarmed", "assembled")

\* ------------------------------------------------- result of a snippet
\* the value of the expression a one-statement snippet consists of
ValueOf(c) ==
    CASE c[1] = "expr" -> "4"
      [] c[1] = "a_plus_b" -> "7"
      [] c[1] = "bad_expr" -> "Unserializable"
      [] OTHER -> None

\* the value the statements of the snippet bind to the name 'result'
BoundResult(c) == IF "assign_result" \in Range(c) THEN "4" ELSE None

\* C22: for every accepted snippet that execute_code_safely runs to its
\* end: if it parses in expression mode the response's result is the value
\* of the expression; otherwise it is the value the snippet's statements
\* bound to 'result', or None when they bound none.
C22_ResultClassification ==
    (strategy = "inproc" /\ pc = "exited" /\ "assembled" \in Range(hist)) =>
        /\ Response.success
        /\ Response.result = IF IsExpression(code) THEN ValueOf(code)
                             ELSE BoundResult(code)

\* a 'completed' event (PROGRESS or STATUS) has been written
CompletedEmitted ==
    \E i \in 1..Len(out) :
        \/ out[i].chan = "PROGRESS" /\ out[i].step = "completed"
        \/ out[i].chan = "STATUS" /\ out[i].status = "completed"

\* C24: in the in-process controller a 'completed' event is written for a
\* request only if the terminal response of that request has success=true.
C24_CompletedMeansSuccess ==
    (strategy = "inproc" /\ pc = "exited" /\ CompletedEmitted) => Response.success

\* ------------------------------------------------------ concurrent calls
\* C23: for any interleaving of two execute_safely calls on one
\* SecureSandbox, the directory a call's child runs in is not removed while
\* that child is running, and once both calls have returned every temp
\* directory either of them created has been removed.
C23_OwnTempDir ==
    DOMAIN threads = Threads =>
        /\ \A t \in Threads : threads[t].pc = "wait" => threads[t].cwd \in dirs
        /\ (\A t \in Threads : threads[t].pc = "returned") => dirs = {}
====
